---- MODULE Spec2Model ----
(***************************************************************************)
(* faba_ntag.py: the NTAG memory model (page store, type detection, NDEF   *)
(* text record codec, layout builder, write/verify protocol).              *)
(*                                                                         *)
(* Bytes are integers 0..255, byte strings and lists are sequences, a      *)
(* Python str is the sequence of its code points.  A page store and a      *)
(* tag's memory are functions from page indices (0-based) to pages.        *)
(***************************************************************************)
EXTENDS Integers, Sequences, FiniteSets, TLC

VARIABLES
    hw,          \* the physical tag on the reader: [uid, mem]
    args,        \* the parsed command line: [op, id, uid, type]
    byteorder,   \* sys.byteorder of the host (decides a BOM-less UTF-16 decode)
    ntag,        \* the NTAGData instance: [pages, uid, type, size, code]
    pc,          \* where main() is
    byte_array,  \* the byte image built by create_byte_array / erase_ntag
    pr,          \* write_blocks / verify_blocks: [start, end, block_num, io, err]
    result,      \* what parse_text did: [outcome, no_text_record, full_payload]
    dumped       \* the byte images handed to dump_ntag's serializers, in order

vars == <<hw, args, byteorder, ntag, pc, byte_array, pr, result, dumped>>

----------------------------------------------------------------------------
(* Bounds of the model *)

\* observed page counts run over 0..MaxObserved
MaxObserved == 233

\* tags of an unknown type have 4..MaxSmallPages pages
MaxSmallPages == 18

\* the first MaxMutPos bytes of a record's content are varied
MaxMutPos == 21

----------------------------------------------------------------------------
(* Python values *)

\* Python's None, where a page (a byte sequence) is expected
None == << -1 >>

Min(a, b) == IF a < b THEN a ELSE b
Max(a, b) == IF a > b THEN a ELSE b

\* s[a:b] of a Python sequence (0-based, half open, clamped to the length)
Slice(s, a, b) == SubSeq(s, a + 1, Min(b, Len(s)))

\* [0x00] * n : a negative n gives the empty list
Zeros(n) == [i \in 1..Max(0, n) |-> 0]

RECURSIVE Xor(_, _)
\* a ^ b on non-negative integers
Xor(a, b) ==
    IF a = 0 /\ b = 0 THEN 0
    ELSE (((a % 2) + (b % 2)) % 2) + 2 * Xor(a \div 2, b \div 2)

RECURSIVE BitAnd(_, _)
\* a & b on non-negative integers
BitAnd(a, b) ==
    IF a = 0 \/ b = 0 THEN 0
    ELSE ((a % 2) * (b % 2)) + 2 * BitAnd(a \div 2, b \div 2)

RECURSIVE Flatten(_)
\* the concatenation of a sequence of sequences
Flatten(ss) ==
    IF ss = <<>> THEN <<>>
    ELSE IF Len(ss) = 1 THEN ss[1]
    ELSE LET half == Len(ss) \div 2
         IN  Flatten(SubSeq(ss, 1, half)) \o Flatten(SubSeq(ss, half + 1, Len(ss)))

----------------------------------------------------------------------------
(* class NTAGData *)

\* NTAGData.__init__ (code is the attribute parse_text adds; <<>> while unset)
NTAGData == [pages |-> <<>>, uid |-> None, type |-> "Unknown", size |-> 0, code |-> <<>>]

\* NTAGData.add_page
add_page(t, page, data) == [t EXCEPT !.pages = (page :> data) @@ t.pages]

RECURSIVE sorted(_)
\* sorted(self.pages): the keys in ascending order
sorted(keys) ==
    IF keys = {} THEN <<>>
    ELSE LET least == CHOOSE k \in keys : \A other \in keys : k <= other
             most  == CHOOSE k \in keys : \A other \in keys : k >= other
             mid   == (least + most) \div 2
         IN  IF least = most THEN <<least>>
             ELSE sorted({k \in keys : k <= mid}) \o sorted({k \in keys : k > mid})

\* NTAGData.get_all_bytes
get_all_bytes(t) ==
    LET order == sorted(DOMAIN t.pages)
    IN  Flatten([i \in 1..Len(order) |-> t.pages[order[i]]])

\* NTAGData.read_page
ntag_read_page(t, page_number) ==
    IF page_number \in DOMAIN t.pages THEN t.pages[page_number] ELSE None

\* two UIDs: 04 74 2F F1 78 00 00 and 04 11 22 33 44 55 66
UidA == <<4, 116, 47, 241, 120, 0, 0>>
UidB == <<4, 17, 34, 51, 68, 85, 102>>

\* pr.io is the sequence of the driver calls made so far, each
\* [call, page, data, ret]; pr.err is <<>> or <<what failed, page>>
NoProtocol == [start |-> 0, end |-> 0, block_num |-> 0, io |-> <<>>, err |-> <<>>]
NoResult == [outcome |-> "none", no_text_record |-> FALSE, full_payload |-> <<>>]
NoArgs == [op |-> "read", id |-> <<>>, uid |-> <<>>, type |-> ""]

----------------------------------------------------------------------------
(* The reader's driver, as far as the program sees it *)

\* read_page(pn532, page): the 4 bytes of the page, None when the read raises
read_page(tag, page) == IF page \in DOMAIN tag.mem THEN tag.mem[page] ELSE None

----------------------------------------------------------------------------
(* detect_card *)

\* the pages read by "while True: data = read_page(pn532, page) ...": the loop
\* stops at the first page the tag does not answer, leaving page = that index
ReadAllPages(t, tag) == [t EXCEPT !.pages = [p \in DOMAIN tag.mem |-> tag.mem[p]]]
ObservedCount(tag) == Cardinality(DOMAIN tag.mem)

\* the (type, size) decided from the CC byte and the observed page count
\* (mutant) a detector that trusts the observed count of a clone
DetectTypeTrustCount(cc_byte, page) ==
    IF cc_byte = 18 THEN <<IF page = 42 THEN "NTAG203" ELSE "NTAG213", page>>
    ELSE IF cc_byte = 62 THEN <<"NTAG215", page>>
    ELSE IF cc_byte = 109 THEN <<"NTAG216", page>>
    ELSE <<"Unknown", page>>

DetectType(cc_byte, page) ==
    IF cc_byte = 18 THEN
        IF page = 42 THEN <<"NTAG203", page>>
        ELSE IF page = 45 THEN <<"NTAG213", page>>
        ELSE <<"NTAG213", 45>>
    ELSE IF cc_byte = 62 THEN
        IF page = 135 THEN <<"NTAG215", page>> ELSE <<"NTAG215", 135>>
    ELSE IF cc_byte = 109 THEN
        IF page = 231 THEN <<"NTAG216", page>> ELSE <<"NTAG216", 231>>
    ELSE <<"Unknown", page>>

\* detect_card as called by main: ntag.read_page(3)[2] raises TypeError when
\* page 3 was not read, and main's "except Exception" ends the run
DetectCard ==
    /\ pc = "start"
    /\ args.op # "create"
    /\ LET t1 == ReadAllPages([ntag EXCEPT !.uid = hw.uid], hw)
           page == ObservedCount(hw)
       IN  IF ntag_read_page(t1, 3) = None
           THEN /\ ntag' = t1
                /\ pc' = "crashed"
           ELSE LET d == DetectType(ntag_read_page(t1, 3)[3], page)
                IN  /\ ntag' = [t1 EXCEPT !.type = d[1], !.size = d[2]]
                    /\ pc' = "detected"
    /\ UNCHANGED <<hw, args, byteorder, byte_array, pr, result, dumped>>

----------------------------------------------------------------------------
(* str <-> bytes *)

\* the result of a decode that raises UnicodeDecodeError
DecodeError == << -1 >>

\* one code point as UTF-8 (surrogates cannot be encoded)
Utf8EncodeChar(c) ==
    IF c < 128 THEN <<c>>
    ELSE IF c < 2048 THEN <<192 + (c \div 64), 128 + (c % 64)>>
    ELSE IF c < 65536 THEN <<224 + (c \div 4096), 128 + ((c \div 64) % 64), 128 + (c % 64)>>
    ELSE <<240 + (c \div 262144), 128 + ((c \div 4096) % 64),
           128 + ((c \div 64) % 64), 128 + (c % 64)>>

\* str.encode('utf-8')
Utf8Encode(str) == Flatten([i \in 1..Len(str) |-> Utf8EncodeChar(str[i])])

IsCont(b) == b >= 128 /\ b <= 191

RECURSIVE Utf8Decode(_)
\* bytes.decode("UTF-8"), strict: the code points, or DecodeError
Utf8Decode(bs) ==
    IF bs = <<>> THEN <<>>
    ELSE
      LET b0 == bs[1]
          n  == Len(bs)
          need == IF b0 < 128 THEN 0
                  ELSE IF b0 >= 194 /\ b0 <= 223 THEN 1
                  ELSE IF b0 >= 224 /\ b0 <= 239 THEN 2
                  ELSE IF b0 >= 240 /\ b0 <= 244 THEN 3
                  ELSE -1
          wellFormed ==
              /\ need >= 0
              /\ n >= need + 1
              /\ \A i \in 2..(need + 1) : IsCont(bs[i])
              /\ (b0 = 224 => bs[2] >= 160)
              /\ (b0 = 237 => bs[2] <= 159)
              /\ (b0 = 240 => bs[2] >= 144)
              /\ (b0 = 244 => bs[2] <= 143)
          cp == IF need = 0 THEN b0
                ELSE IF need = 1 THEN (b0 - 192) * 64 + (bs[2] - 128)
                ELSE IF need = 2 THEN (b0 - 224) * 4096 + (bs[2] - 128) * 64 + (bs[3] - 128)
                ELSE (b0 - 240) * 262144 + (bs[2] - 128) * 4096
                         + (bs[3] - 128) * 64 + (bs[4] - 128)
      IN  IF ~wellFormed THEN DecodeError
          ELSE LET rest == Utf8Decode(SubSeq(bs, need + 2, n))
               IN  IF rest = DecodeError THEN DecodeError ELSE <<cp>> \o rest

RECURSIVE Utf16Units(_, _)
\* the 16-bit units of a byte string in the given byte order, or DecodeError
\* when a byte is left over ("truncated data")
Utf16Units(bs, order) ==
    IF bs = <<>> THEN <<>>
    ELSE IF Len(bs) = 1 THEN DecodeError
    ELSE LET u == IF order = "little" THEN bs[1] + 256 * bs[2] ELSE 256 * bs[1] + bs[2]
             rest == Utf16Units(SubSeq(bs, 3, Len(bs)), order)
         IN  IF rest = DecodeError THEN DecodeError ELSE <<u>> \o rest

RECURSIVE Utf16Points(_)
\* the code points of a sequence of UTF-16 units: surrogates must pair up
Utf16Points(us) ==
    IF us = <<>> THEN <<>>
    ELSE LET u == us[1]
             hi == u >= 55296 /\ u <= 56319
             lo == u >= 56320 /\ u <= 57343
         IN  IF lo THEN DecodeError
             ELSE IF hi THEN
                 IF Len(us) >= 2 /\ us[2] >= 56320 /\ us[2] <= 57343
                 THEN LET rest == Utf16Points(SubSeq(us, 3, Len(us)))
                      IN  IF rest = DecodeError THEN DecodeError
                          ELSE <<65536 + (u - 55296) * 1024 + (us[2] - 56320)>> \o rest
                 ELSE DecodeError
             ELSE LET rest == Utf16Points(Tail(us))
                  IN  IF rest = DecodeError THEN DecodeError ELSE <<u>> \o rest

\* bytes.decode("UTF-16"): a leading BOM picks the byte order and is dropped,
\* without one the host's byte order is used
Utf16Decode(bs, native) ==
    LET bomLE == Len(bs) >= 2 /\ bs[1] = 255 /\ bs[2] = 254
        bomBE == Len(bs) >= 2 /\ bs[1] = 254 /\ bs[2] = 255
        order == IF bomLE THEN "little" ELSE IF bomBE THEN "big" ELSE native
        body  == IF bomLE \/ bomBE THEN SubSeq(bs, 3, Len(bs)) ELSE bs
        us    == Utf16Units(body, order)
    IN  IF us = DecodeError THEN DecodeError ELSE Utf16Points(us)

\* bytes.decode("ascii")
AsciiDecode(bs) == IF \A i \in 1..Len(bs) : bs[i] < 128 THEN bs ELSE DecodeError

\* bytes.hex(): two lowercase hex digits per byte
HexDigit(d) == IF d < 10 THEN 48 + d ELSE 87 + d
BytesHex(bs) == Flatten([i \in 1..Len(bs) |-> <<HexDigit(bs[i] \div 16), HexDigit(bs[i] % 16)>>])

\* int(s, 16) of a two-character string
HexValue(c) == IF c >= 48 /\ c <= 57 THEN c - 48
               ELSE IF c >= 97 /\ c <= 102 THEN c - 87 ELSE c - 55
IntHex2(s) == 16 * HexValue(s[1]) + HexValue(s[2])

\* " ".join(f"{byte:02X}" for byte in data): uppercase, space separated
HexDigitUpper(d) == IF d < 10 THEN 48 + d ELSE 55 + d
RECURSIVE JoinHexUpper(_)
JoinHexUpper(data) ==
    IF data = <<>> THEN <<>>
    ELSE LET h == <<HexDigitUpper(data[1] \div 16), HexDigitUpper(data[1] % 16)>>
         IN  IF Len(data) = 1 THEN h ELSE h \o <<32>> \o JoinHexUpper(Tail(data))

\* str.startswith
StartsWith(str, prefix) ==
    Len(str) >= Len(prefix) /\ SubSeq(str, 1, Len(prefix)) = prefix

----------------------------------------------------------------------------
(* encode_faba_id, create_byte_array *)

\* the literals "en02190530", "00" and "02190530"
StrEnPrefix == <<101, 110, 48, 50, 49, 57, 48, 53, 51, 48>>
Str00 == <<48, 48>>
StrPrefix == <<48, 50, 49, 57, 48, 53, 51, 48>>

\* (mutant) the suffix and the id swapped
encode_faba_id_swapped(id) == StrEnPrefix \o Str00 \o id

encode_faba_id(id) == StrEnPrefix \o id \o Str00

\* (mutant) size_to_mlen without its entry for 42 pages
MLenNo42(size) ==
    CASE size = 45  -> 160
      [] size = 135 -> 224
      [] size = 231 -> 250
      [] OTHER      -> 160

\* size_to_mlen.get(ntag.size, 0xA0)
MLen(size) ==
    CASE size = 42  -> 109
      [] size = 45  -> 160
      [] size = 135 -> 224
      [] size = 231 -> 250
      [] OTHER      -> 160

\* the pages first..last of the page store, all-zero where a page is absent
\* or not 4 bytes long
StoredPages(t, first, last) ==
    Flatten([k \in 1..(last - first + 1) |->
        LET page == ntag_read_page(t, first + k - 1)
        IN  IF page # None /\ Len(page) = 4 THEN page ELSE <<0, 0, 0, 0>>])

last5 == <<0, 0, 0, 189,  4, 0, 0, 255,  0, 0, 0, 0,  0, 0, 0, 0,  0, 0, 0, 0>>

create_byte_array(input_str, t) ==
    LET page04 == <<1, 3, MLen(t.size), 12>>
        page05 == <<52, 3, 21, 209>>
        page06 == <<1, 17, 84, 2>>
        page11 == <<254, 0, 0, 0>>
        pages0_3 == StoredPages(t, 0, 3)
        hex_data == BytesHex(Utf8Encode(input_str))
        pages7_10 ==
            IF input_str # <<>>
            THEN [k \in 1..(Len(hex_data) \div 2) |-> IntHex2(SubSeq(hex_data, 2 * k - 1, 2 * k))]
            ELSE StoredPages(t, 7, 10)
    IN  pages0_3 \o page04 \o page05 \o page06 \o pages7_10 \o page11
            \o Zeros((t.size - 17) * 4) \o last5

----------------------------------------------------------------------------
(* parse_text *)

RECURSIVE TakeBytes(_, _, _, _)
\* "for byte in page_data": stops at remaining_bytes == 0 or at a byte 0xFE
TakeBytes(page_data, i, remaining_bytes, full_payload) ==
    IF i > Len(page_data) \/ remaining_bytes = 0 \/ page_data[i] = 254
    THEN [remaining_bytes |-> remaining_bytes, full_payload |-> full_payload]
    ELSE TakeBytes(page_data, i + 1, remaining_bytes - 1, Append(full_payload, page_data[i]))

RECURSIVE ReadPayload(_, _, _, _)
\* "while remaining_bytes > 0": stops at a missing page
ReadPayload(t, next_page, remaining_bytes, full_payload) ==
    IF remaining_bytes <= 0 THEN full_payload
    ELSE LET page_data == ntag_read_page(t, next_page)
         IN  IF page_data = None THEN full_payload
             ELSE LET r == TakeBytes(page_data, 1, remaining_bytes, full_payload)
                  IN  ReadPayload(t, next_page + 1, r.remaining_bytes, r.full_payload)

\* (mutant) a payload exactly as long as the language code refused too
InsufficientDataOffByOne(full_payload, lang_length) == Len(full_payload) <= lang_length

\* len(full_payload) < lang_length
InsufficientData(full_payload, lang_length) == Len(full_payload) < lang_length

\* parse_text from "lang_length = status_byte & 0x3F" on
parse_record(t, native) ==
    LET page6 == ntag_read_page(t, 6)
        payload_length == page6[2]
        type_field     == page6[3]
        status_byte    == page6[4]
        lang_length    == BitAnd(status_byte, 63)
        utf16          == BitAnd(status_byte, 128) # 0
        full_payload   == ReadPayload(t, 7, payload_length, <<>>)
        lang_code      == AsciiDecode(SubSeq(full_payload, 1, lang_length))
        text_bytes     == SubSeq(full_payload, lang_length + 1, Len(full_payload))
        text_content   == IF utf16 THEN Utf16Decode(text_bytes, native)
                          ELSE Utf8Decode(text_bytes)
        base == [no_text_record |-> type_field # 84, full_payload |-> full_payload,
                 code |-> <<>>]
    IN  IF InsufficientData(full_payload, lang_length)
        THEN base @@ [outcome |-> "insufficient"]
        ELSE IF lang_code = DecodeError \/ text_content = DecodeError
        THEN base @@ [outcome |-> "raised"]
        ELSE IF StartsWith(text_content, StrPrefix) /\ Len(text_content) >= 12
        THEN [base EXCEPT !.code = SubSeq(text_content, 9, 12)] @@ [outcome |-> "faba_id"]
        ELSE base @@ [outcome |-> "no_identifier"]

NoPage6 == [outcome |-> "no_page6", no_text_record |-> FALSE, full_payload |-> <<>>,
            code |-> <<>>]

\* (mutant) parse_text with the "return" after "No text record found" restored
parse_text_strict(t, native) ==
    LET page6 == ntag_read_page(t, 6)
    IN  IF page6 = None THEN NoPage6
        ELSE IF page6[3] # 84
        THEN [outcome |-> "no_identifier", no_text_record |-> TRUE,
              full_payload |-> <<>>, code |-> <<>>]
        ELSE parse_record(t, native)

\* parse_text: what it ends with (outcome), whether "No text record found" was
\* logged, the payload it accumulated and the value it gives ntag.code.
\*   no_page6       "Failed to read Page 6"
\*   insufficient   "Invalid NDEF record: insufficient data for language code"
\*   raised         a decode raised UnicodeDecodeError
\*   faba_id        "FabaID: ..." (ntag.code set)
\*   no_identifier  "No valid Faba folder ID found"
parse_text(t, native) ==
    IF ntag_read_page(t, 6) = None THEN NoPage6 ELSE parse_record(t, native)

\* read_ntag as called by main; an exception ends the run in main's handler
ReadNtag ==
    /\ pc = "detected"
    /\ args.op = "read"
    /\ LET r == parse_text(ntag, byteorder)
       IN  /\ result' = [outcome |-> r.outcome, no_text_record |-> r.no_text_record,
                         full_payload |-> r.full_payload]
           /\ ntag' = IF r.outcome = "faba_id" THEN [ntag EXCEPT !.code = r.code] ELSE ntag
           /\ pc' = IF r.outcome = "raised" THEN "crashed" ELSE "done"
    /\ UNCHANGED <<hw, args, byteorder, byte_array, pr, dumped>>

----------------------------------------------------------------------------
(* dump_ntag, crete_ntag *)

\* dump_ntag: an image of more than 43 bytes goes to the three serializers
dump_ntag(ds, image, t) ==
    IF Len(image) > 43
    THEN Append(ds, [byte_array |-> image, size |-> t.size, type |-> t.type, uid |-> t.uid])
    ELSE ds

\* ntag_specs
TagTypes == {"NTAG203", "NTAG213", "NTAG215", "NTAG216"}
ntag_specs(type) ==
    CASE type = "NTAG203" -> [capc |-> 18,  mlen |-> 109, ntag_size |-> 42]
      [] type = "NTAG213" -> [capc |-> 18,  mlen |-> 160, ntag_size |-> 45]
      [] type = "NTAG215" -> [capc |-> 62,  mlen |-> 224, ntag_size |-> 135]
      [] type = "NTAG216" -> [capc |-> 109, mlen |-> 250, ntag_size |-> 231]

\* (mutant) the first check byte computed without the cascade tag 0x88
crete_pages_no_ct(uid, type) ==
    LET bcc0 == Xor(Xor(uid[1], uid[2]), uid[3])
        bcc1 == Xor(Xor(Xor(uid[4], uid[5]), uid[6]), uid[7])
    IN  <<  <<uid[1], uid[2], uid[3], bcc0>>,
            <<uid[4], uid[5], uid[6], uid[7]>>,
            <<bcc1, 72, 0, 0>>,
            <<225, 16, ntag_specs(type).capc, 0>>,
            <<1, 3, ntag_specs(type).mlen, 12>>  >>

\* page00..page04 of crete_ntag
crete_pages(uid, type) ==
    LET bcc0 == Xor(Xor(Xor(136, uid[1]), uid[2]), uid[3])
        bcc1 == Xor(Xor(Xor(uid[4], uid[5]), uid[6]), uid[7])
    IN  <<  <<uid[1], uid[2], uid[3], bcc0>>,
            <<uid[4], uid[5], uid[6], uid[7]>>,
            <<bcc1, 72, 0, 0>>,
            <<225, 16, ntag_specs(type).capc, 0>>,
            <<1, 3, ntag_specs(type).mlen, 12>>  >>

\* crete_ntag(uid, type, id) as called by main; its ValueError ends the run
\* in main's handler
CreteNtag ==
    /\ pc = "start"
    /\ args.op = "create"
    /\ IF Len(args.uid) # 7 \/ args.type \notin TagTypes
       THEN /\ pc' = "crashed"
            /\ UNCHANGED <<ntag, byte_array, dumped>>
       ELSE LET pages == crete_pages(args.uid, args.type)
                t0 == [NTAGData EXCEPT !.uid = args.uid, !.type = args.type,
                                       !.size = ntag_specs(args.type).ntag_size]
                t1 == [t0 EXCEPT !.pages = [p \in 0..4 |-> pages[p + 1]]]
                image == create_byte_array(encode_faba_id(args.id), t1)
            IN  /\ ntag' = t1
                /\ byte_array' = image
                /\ dumped' = dump_ntag(dumped, image, t1)
                /\ pc' = "done"
    /\ UNCHANGED <<hw, args, byteorder, pr, result>>

\* main, -d: the bytes of the page store go to dump_ntag
DumpNtag ==
    /\ pc = "detected"
    /\ args.op = "dump"
    /\ byte_array' = get_all_bytes(ntag)
    /\ dumped' = dump_ntag(dumped, get_all_bytes(ntag), ntag)
    /\ pc' = "done"
    /\ UNCHANGED <<hw, args, byteorder, ntag, pr, result>>

VALID_TAG_TYPES == {"NTAG203", "NTAG213", "NTAG215", "NTAG216"}

\* str.upper, on the type names given on the command line
upper(str) ==
    CASE str = "ntag203" -> "NTAG203"
      [] str = "ntag213" -> "NTAG213"
      [] str = "ntag215" -> "NTAG215"
      [] str = "ntag216" -> "NTAG216"
      [] str = "Ntag215" -> "NTAG215"
      [] str = "unknown" -> "UNKNOWN"
      [] OTHER           -> str

\* re.fullmatch(r"[0-9a-fA-F]{14}", uid_str)
MatchesUid(uid_str) ==
    /\ Len(uid_str) = 14
    /\ \A i \in 1..Len(uid_str) :
          uid_str[i] \in (48..57) \cup (65..70) \cup (97..102)

\* re.fullmatch(r"\d{4}", tag_id); \d matches the decimal digits of every
\* script, of which the ASCII and the Arabic-Indic ones are kept here
MatchesId(tag_id) ==
    /\ Len(tag_id) = 4
    /\ \A i \in 1..Len(tag_id) : tag_id[i] \in (48..57) \cup (1632..1641)

\* main, -c UID TYPE ID, up to the call of crete_ntag: the three checks, and
\* the UID parsed to bytes; the type goes to crete_ntag as it was given
MainCreate ==
    /\ pc = "main"
    /\ args.op = "create"
    /\ IF MatchesUid(args.uid_str) /\ upper(args.type) \in VALID_TAG_TYPES /\ MatchesId(args.id)
       THEN /\ args' = [args EXCEPT !.uid = [k \in 1..7 |->
                                         IntHex2(SubSeq(args.uid_str, 2 * k - 1, 2 * k))]]
            /\ pc' = "start"
       ELSE /\ pc' = "rejected"
            /\ UNCHANGED args
    /\ UNCHANGED <<hw, byteorder, ntag, byte_array, pr, result, dumped>>

\* the pages of a byte image, as save_flipper lists them: Page i//4 for each
\* slice [i:i+4], a short last slice padded with zeros
ImagePages(image) ==
    [p \in 0..(((Len(image) + 3) \div 4) - 1) |->
        LET chunk == Slice(image, 4 * p, 4 * p + 4)
        IN  chunk \o Zeros(4 - Len(chunk))]

\* The dumped .nfc file is loaded on an emulator (or a tag), put on the reader
\* and the program is run again with -r.  args.id keeps the id the image was
\* built for.
ReadBackDump ==
    /\ pc = "done"
    /\ args.op = "create"
    /\ dumped # <<>>
    /\ LET d == dumped[Len(dumped)]
       IN  hw' = [uid |-> d.uid, mem |-> ImagePages(d.byte_array)]
    /\ args' = [args EXCEPT !.op = "read"]
    /\ ntag' = NTAGData
    /\ pc' = "start"
    /\ UNCHANGED <<byteorder, byte_array, pr, result, dumped>>

----------------------------------------------------------------------------
(* write_ntag, erase_ntag, write_blocks, verify_blocks *)

\* (mutant) a write that also covers page 12
WriteRangeWide == [start |-> 4, end |-> 12]

\* the range write_ntag hands to write_blocks
WriteRange == [start |-> 4, end |-> 11]

\* (mutant) a verification that stops one page short
VerifyRangeShort(range) == [start |-> range.start, end |-> range.end - 1]

\* the range handed to verify_blocks: the one that was handed to write_blocks
VerifyRange(range) == [start |-> range.start, end |-> range.end]

\* the image erase_ntag builds
erase_image(t) ==
    LET page04 == IF t.type = "NTAG203" \/ t.type = "NTAG213" THEN <<1, 3, 160, 12>>
                  ELSE IF t.type = "NTAG215" \/ t.type = "NTAG216" THEN <<3, 0, 254, 0>>
                  ELSE <<0, 0, 0, 0>>
        page05 == IF t.type = "NTAG203" \/ t.type = "NTAG213" THEN <<52, 3, 0, 254>>
                  ELSE <<0, 0, 0, 0>>
    IN  Zeros(16) \o page04 \o page05 \o Zeros((t.size - 11) * 4) \o last5

\* write_ntag up to the call of write_blocks (main has matched the id against \d{4})
WriteNtag ==
    /\ pc = "detected"
    /\ args.op = "write"
    /\ byte_array' = create_byte_array(encode_faba_id(args.id), ntag)
    /\ pr' = [NoProtocol EXCEPT !.start = WriteRange.start, !.end = WriteRange.end]
    /\ pc' = "write_blocks"
    /\ UNCHANGED <<hw, args, byteorder, ntag, result, dumped>>

\* erase_ntag up to the call of write_blocks
EraseNtag ==
    /\ pc = "detected"
    /\ args.op = "erase"
    /\ byte_array' = erase_image(ntag)
    /\ pr' = [NoProtocol EXCEPT !.start = 4, !.end = ntag.size - 1]
    /\ pc' = "write_blocks"
    /\ UNCHANGED <<hw, args, byteorder, ntag, result, dumped>>

\* the end of write_ntag / erase_ntag after verify_blocks returned True:
\* write_ntag dumps the image, erase_ntag only logs
Succeed(d) == IF args.op = "write" THEN dump_ntag(d, byte_array, ntag) ELSE d

\* where the run is once write_blocks is at block_num: in its loop, or (the
\* loop over) in verify_blocks' loop, or (that range empty too) at the end
AfterWrite(block_num) ==
    LET v == VerifyRange([start |-> pr.start, end |-> pr.end])
    IN  IF block_num <= pr.end THEN [pc |-> "write_loop", block_num |-> block_num]
        ELSE IF v.start <= v.end THEN [pc |-> "verify_loop", block_num |-> v.start]
        ELSE [pc |-> "done", block_num |-> block_num]

\* (mutant) "if uid:" in place of the comparison
UidPresent(uid, t) == uid # None

\* uid == ntag.uid
UidMatches(uid, t) == uid = t.uid

\* what pn532.read_passive_target can return when write_blocks starts: the
\* UID of the tag on the reader (the detected one or another), or None
RereadUids == {hw.uid, IF hw.uid = UidB THEN UidA ELSE UidB, None}

\* write_blocks: the UID re-read and its comparison
UidCheck ==
    /\ pc = "write_blocks"
    /\ \E uid \in RereadUids :
        LET io == Append(pr.io, [call |-> "uid", page |-> -1, data |-> <<>>, ret |-> uid])
        IN  IF UidMatches(uid, ntag)
            THEN LET nx == AfterWrite(pr.start)
                 IN  /\ pr' = [pr EXCEPT !.io = io, !.block_num = nx.block_num]
                     /\ pc' = nx.pc
                     /\ dumped' = IF nx.pc = "done" THEN Succeed(dumped) ELSE dumped
            ELSE /\ pr' = [pr EXCEPT !.io = io, !.err = <<"UidMismatch", -1>>]
                 /\ pc' = "failed"
                 /\ UNCHANGED dumped
    /\ UNCHANGED <<hw, args, byteorder, ntag, byte_array, result>>

\* (mutant) only an exception counts as a failed write
WriteFailedOnlyRaise(wr) == wr = "raise"

\* "if wr == False: return False" and "except Exception: return False"
WriteFailed(wr) == wr = "False" \/ wr = "raise"

\* what pn532.ntag2xx_write_block can do: return True, return False or raise;
\* a page the tag does not have is never written
WriteReturns(page) == IF page \in DOMAIN hw.mem THEN {"True", "False", "raise"}
                      ELSE {"False", "raise"}

\* write_blocks: one turn of its loop.  A write that returned True is in the
\* tag; one that failed may or may not have reached it.
WriteBlock ==
    /\ pc = "write_loop"
    /\ LET block_num == pr.block_num
           block_data == Slice(byte_array, block_num * 4, block_num * 4 + 4)
       IN  \E wr \in WriteReturns(block_num), applied \in BOOLEAN :
             /\ (wr = "True" => applied)
             /\ (block_num \notin DOMAIN hw.mem => ~applied)
             /\ hw' = IF applied THEN [hw EXCEPT !.mem[block_num] = block_data] ELSE hw
             /\ LET io == Append(pr.io, [call |-> "write", page |-> block_num,
                                         data |-> block_data, ret |-> wr])
                IN  IF WriteFailed(wr)
                    THEN /\ pr' = [pr EXCEPT !.io = io, !.err = <<"WriteFailed", block_num>>]
                         /\ pc' = "failed"
                         /\ UNCHANGED dumped
                    ELSE LET nx == AfterWrite(block_num + 1)
                         IN  /\ pr' = [pr EXCEPT !.io = io, !.block_num = nx.block_num]
                             /\ pc' = nx.pc
                             /\ dumped' = IF nx.pc = "done" THEN Succeed(dumped) ELSE dumped
    /\ UNCHANGED <<args, byteorder, ntag, byte_array, result>>

\* a read-back that differs from the page in its last byte
Garbled(data) == [data EXCEPT ![4] = IF data[4] = 0 THEN 255 ELSE 0]

\* what read_page(pn532, page) can return in verify_blocks: the page as the
\* tag holds it, other bytes (a disturbed read, another tag), or None
ReadReturns(page) ==
    IF page \in DOMAIN hw.mem THEN {hw.mem[page], Garbled(hw.mem[page]), None}
    ELSE {None}

\* (mutant) a comparison of the first byte only
VerifyMismatchFirstByte(expected_data, read_data) ==
    JoinHexUpper(SubSeq(expected_data, 1, 1)) # JoinHexUpper(SubSeq(read_data, 1, 1))

\* expected_hex != read_hex
VerifyMismatch(expected_data, read_data) ==
    JoinHexUpper(expected_data) # JoinHexUpper(read_data)

\* verify_blocks: one turn of its loop
VerifyBlock ==
    /\ pc = "verify_loop"
    /\ LET block_num == pr.block_num
           expected_data == Slice(byte_array, block_num * 4, block_num * 4 + 4)
           v == VerifyRange([start |-> pr.start, end |-> pr.end])
       IN  \E read_data \in ReadReturns(block_num) :
             LET io == Append(pr.io, [call |-> "read", page |-> block_num,
                                      data |-> expected_data, ret |-> read_data])
             IN  IF read_data = None
                 THEN /\ pr' = [pr EXCEPT !.io = io, !.err = <<"ReadFailed", block_num>>]
                      /\ pc' = "failed"
                      /\ UNCHANGED dumped
                 ELSE IF VerifyMismatch(expected_data, read_data)
                 THEN /\ pr' = [pr EXCEPT !.io = io, !.err = <<"VerifyMismatch", block_num>>]
                      /\ pc' = "failed"
                      /\ UNCHANGED dumped
                 ELSE IF block_num + 1 <= v.end
                 THEN /\ pr' = [pr EXCEPT !.io = io, !.block_num = block_num + 1]
                      /\ pc' = "verify_loop"
                      /\ UNCHANGED dumped
                 ELSE /\ pr' = [pr EXCEPT !.io = io, !.block_num = block_num + 1]
                      /\ pc' = "done"
                      /\ dumped' = Succeed(dumped)
    /\ UNCHANGED <<hw, args, byteorder, ntag, byte_array, result>>

----------------------------------------------------------------------------
(* Tags and initial states *)

\* a factory-blank tag of n pages whose page 3 carries the CC byte cc
BlankMem(uid, cc, n) ==
    [p \in 0..(n - 1) |->
        IF p = 0 THEN <<uid[1], uid[2], uid[3], Xor(Xor(136, uid[1]), Xor(uid[2], uid[3]))>>
        ELSE IF p = 1 THEN <<uid[4], uid[5], uid[6], uid[7]>>
        ELSE IF p = 2 THEN <<Xor(Xor(uid[4], uid[5]), Xor(uid[6], uid[7])), 72, 0, 0>>
        ELSE IF p = 3 THEN <<225, 16, cc, 0>>
        ELSE <<0, 0, 0, 0>>]

\* main() up to the dispatch: a fresh NTAGData, nothing built, nothing written
Fresh ==
    /\ ntag = NTAGData
    /\ pc = "start"
    /\ byte_array = <<>>
    /\ pr = NoProtocol
    /\ result = NoResult
    /\ dumped = <<>>

CCBytes == {18, 62, 109, 0, 68}

InitDetect ==
    /\ hw \in {[uid |-> UidA, mem |-> BlankMem(UidA, cc, n)] :
                   cc \in CCBytes, n \in 0..MaxObserved}
    /\ args = NoArgs
    /\ byteorder = "little"
    /\ Fresh

NextDetect == DetectCard

SpecDetect == InitDetect /\ [][NextDetect]_vars

\* the decimal digits '0'..'9'
Digits == 48..57
FabaIds == {<<a, b, c, d>> : a \in Digits, b \in Digits, c \in Digits, d \in Digits}
Id1234 == <<49, 50, 51, 52>>

\* 7-byte UIDs: the manufacturer byte 0x04 and six bytes of UidByteChoices
UidByteChoices == {0, 120, 255}
Uids == {<<4, b, c>> \o <<d, e, f, g>> :
            b \in {116}, c \in UidByteChoices, d \in UidByteChoices,
            e \in UidByteChoices, f \in {120}, g \in UidByteChoices}

\* ids over the digits 0, 5 and 9
SampleDigits == {48, 53, 57}
SampleIds == {<<a, b, c, d>> : a \in SampleDigits, b \in SampleDigits,
                               c \in SampleDigits, d \in SampleDigits} \cup {Id1234}

\* -c UID TYPE ID: every id with the smallest type, the sample ids with every
\* type, every UID with every type
CreateArgs ==
    {[op |-> "create", id |-> id, uid |-> UidA, type |-> "NTAG203"] : id \in FabaIds}
    \cup {[op |-> "create", id |-> id, uid |-> UidA, type |-> ty] :
             id \in SampleIds, ty \in TagTypes}
    \cup {[op |-> "create", id |-> Id1234, uid |-> u, type |-> ty] : u \in Uids, ty \in TagTypes}

NoTag == [uid |-> None, mem |-> <<>>]

InitCreate ==
    /\ hw = NoTag
    /\ args \in CreateArgs
    /\ byteorder = "little"
    /\ Fresh

NextCreate == CreteNtag \/ ReadBackDump \/ DetectCard \/ ReadNtag

SpecCreate == InitCreate /\ [][NextCreate]_vars

\* a tag of n pages that already carries the FabaID id in pages 4..11
WrittenMem(uid, cc, n, id) ==
    LET blank == BlankMem(uid, cc, n)
        image == create_byte_array(encode_faba_id(id),
                                   [NTAGData EXCEPT !.pages = blank, !.size = n])
    IN  [p \in 0..(n - 1) |-> IF p >= 4 /\ p <= 11 THEN Slice(image, 4 * p, 4 * p + 4)
                              ELSE blank[p]]

Id0730 == <<48, 55, 51, 48>>

\* the tags put on the reader for a write or an erase: the four genuine
\* types blank, a written NTAG213, a 20-page clone with CC 0x12, and tags of
\* an unknown CC with 4..MaxSmallPages pages
ProtoTags ==
    {[uid |-> UidA, mem |-> BlankMem(UidA, c[1], c[2])] :
        c \in {<<18, 42>>, <<18, 45>>, <<62, 135>>, <<109, 231>>, <<18, 20>>}}
    \cup {[uid |-> UidB, mem |-> WrittenMem(UidB, 18, 45, Id0730)]}
    \cup {[uid |-> UidA, mem |-> BlankMem(UidA, 0, n)] : n \in 4..MaxSmallPages}

ProtoArgs == {[NoArgs EXCEPT !.op = "write", !.id = Id1234],
              [NoArgs EXCEPT !.op = "write", !.id = Id0730],
              [NoArgs EXCEPT !.op = "erase"]}

InitProto ==
    /\ hw \in ProtoTags
    /\ args \in ProtoArgs
    /\ byteorder = "little"
    /\ Fresh

NextProto == DetectCard \/ WriteNtag \/ EraseNtag \/ UidCheck \/ WriteBlock \/ VerifyBlock

SpecProto == InitProto /\ [][NextProto]_vars

\* the tags put on the reader for a dump: those of ProtoTags and clones that
\* answer more pages than the size forced on them
DumpTags ==
    ProtoTags \cup {[uid |-> UidA, mem |-> BlankMem(UidA, c[1], c[2])] :
                        c \in {<<18, 46>>, <<62, 45>>, <<62, 140>>, <<0, 45>>}}

\* the three ways to a dump: -d, -w ID, -c UID TYPE ID
InitDump ==
    /\ \/ /\ hw \in DumpTags
          /\ args \in {[NoArgs EXCEPT !.op = "dump"],
                       [NoArgs EXCEPT !.op = "write", !.id = Id1234]}
       \/ /\ hw = NoTag
          /\ args \in {[op |-> "create", id |-> Id1234, uid |-> UidA, type |-> ty] :
                          ty \in TagTypes}
    /\ byteorder = "little"
    /\ Fresh

NextDump ==
    DetectCard \/ DumpNtag \/ CreteNtag \/ WriteNtag \/ UidCheck \/ WriteBlock \/ VerifyBlock

SpecDump == InitDump /\ [][NextDump]_vars

\* the ways to create_byte_array: -w ID on a tag of any CC byte and observed
\* page count, -c UID TYPE ID
InitLayout ==
    /\ \/ /\ hw \in {[uid |-> UidA, mem |-> BlankMem(UidA, cc, n)] :
                       cc \in CCBytes, n \in 0..MaxObserved}
          /\ args = [NoArgs EXCEPT !.op = "write", !.id = Id1234]
       \/ /\ hw = NoTag
          /\ args \in {[op |-> "create", id |-> Id1234, uid |-> UidA, type |-> ty] :
                          ty \in TagTypes}
    /\ byteorder = "little"
    /\ Fresh

NextLayout == DetectCard \/ WriteNtag \/ CreteNtag

SpecLayout == InitLayout /\ [][NextLayout]_vars

\* "04742FF1780000"
UidStrA == <<48, 52, 55, 52, 50, 70, 70, 49, 55, 56, 48, 48, 48, 48>>

\* UID arguments: upper and lower case hex, 13 and 16 characters, a 'G'
UidStrs ==
    {UidStrA,
     [UidStrA EXCEPT ![6] = 102, ![7] = 102],
     SubSeq(UidStrA, 1, 13),
     UidStrA \o <<48, 48>>,
     [UidStrA EXCEPT ![6] = 71]}

\* TYPE arguments
TypeStrs == {"NTAG203", "NTAG213", "NTAG215", "NTAG216",
             "ntag203", "ntag213", "ntag215", "ntag216",
             "Ntag215", "NTAG217", "unknown", ""}

\* ID arguments: "1234", "0730", "123", "12345", "12a4" and "1234" in
\* Arabic-Indic digits
IdStrs == {Id1234, Id0730, <<49, 50, 51>>, <<49, 50, 51, 52, 53>>, <<49, 50, 97, 52>>,
           <<1633, 1634, 1635, 1636>>}

\* main() entered with -c UID TYPE ID as typed
InitMain ==
    /\ hw = NoTag
    /\ args \in {[op |-> "create", id |-> id, uid |-> <<>>, type |-> ty, uid_str |-> u] :
                    id \in IdStrs, ty \in TypeStrs, u \in UidStrs}
    /\ byteorder = "little"
    /\ ntag = NTAGData
    /\ pc = "main"
    /\ byte_array = <<>>
    /\ pr = NoProtocol
    /\ result = NoResult
    /\ dumped = <<>>

NextMain == MainCreate \/ CreteNtag

SpecMain == InitMain /\ [][NextMain]_vars

\* UTF-16 (little endian) of a str of code points below 0x10000
Utf16LE(str) == Flatten([i \in 1..Len(str) |-> <<str[i] % 256, str[i] \div 256>>])

\* what pages 7.. of a tag may hold: the payload write_ntag writes for id
\* 1234 followed by the terminator page and a trailer page, and a UTF-16
\* text record of the same text
ContentUtf8 == Utf8Encode(encode_faba_id(Id1234)) \o <<254, 0, 0, 0>> \o <<0, 0, 0, 189>>
ContentUtf16 == <<101, 110>> \o Utf16LE(StrPrefix \o Id1234) \o <<254, 0>>

\* the bytes put in place of one byte of the content
MutBytes == {0, 49, 254, 255}

\* a content with the byte at position k (1..MaxMutPos) replaced
Contents ==
    {ContentUtf8, ContentUtf16}
    \cup {[ContentUtf8 EXCEPT ![k] = v] : k \in 1..Min(MaxMutPos, Len(ContentUtf8)), v \in MutBytes}

\* a tag of n pages with the record header [0x01, plen, type, status] in page
\* 6 and the content from page 7 on
RecordMem(plen, type, status, content, n) ==
    LET blank == BlankMem(UidA, 18, n)
    IN  [p \in 0..(n - 1) |->
            IF p < 4 THEN blank[p]
            ELSE IF p = 4 THEN <<1, 3, 160, 12>>
            ELSE IF p = 5 THEN <<52, 3, 21, 209>>
            ELSE IF p = 6 THEN <<1, plen, type, status>>
            ELSE LET chunk == Slice(content, 4 * (p - 7), 4 * (p - 7) + 4)
                 IN  chunk \o Zeros(4 - Len(chunk))]

PayloadLengths == {0, 2, 12, 14, 16, 17, 26}
TypeFields == {84, 0}
StatusBytes == {2, 0, 3, 63, 130}
PageCounts == {6, 7, 10, 12, 13, 14}

RecordTags ==
    {[uid |-> UidA, mem |-> RecordMem(plen, type, status, content, n)] :
        plen \in PayloadLengths, type \in TypeFields, status \in StatusBytes,
        content \in Contents, n \in PageCounts}

InitParse ==
    /\ hw \in RecordTags
    /\ args = NoArgs
    /\ byteorder \in {"little", "big"}
    /\ (byteorder = "big" => 6 \in DOMAIN hw.mem /\ hw.mem[6][4] >= 128)
    /\ Fresh

NextParse == DetectCard \/ ReadNtag

SpecParse == InitParse /\ [][NextParse]_vars

----------------------------------------------------------------------------
(* C1 *)

\* the CC byte of the tag on the reader
HwCC == hw.mem[3][3]

\* C1: type detection is a total function of (CC byte, observed page count n):
\* whenever the tag has a CC byte (page 3 answered), detect_card ends, with
\* (NTAG203, 42) for CC=0x12 and n=42, (NTAG213, 45) for CC=0x12 and any other
\* n, (NTAG215, 135) for CC=0x3E, (NTAG216, 231) for CC=0x6D, and (Unknown, n)
\* for every other CC value.
C1_DetectTotal ==
    (pc # "start" /\ 3 \in DOMAIN hw.mem) =>
        /\ pc = "detected"
        /\ LET n == ObservedCount(hw)
           IN  <<ntag.type, ntag.size>> =
                  CASE HwCC = 18 /\ n = 42 -> <<"NTAG203", 42>>
                    [] HwCC = 18 /\ n # 42 -> <<"NTAG213", 45>>
                    [] HwCC = 62           -> <<"NTAG215", 135>>
                    [] HwCC = 109          -> <<"NTAG216", 231>>
                    [] OTHER               -> <<"Unknown", n>>

\* a CC=0x3E clone that answered 100 pages has been classified
C1_Witness ==
    /\ pc = "detected"
    /\ HwCC = 62
    /\ ObservedCount(hw) = 100
    /\ ntag.type = "NTAG215"

----------------------------------------------------------------------------
(* C2 *)

\* C2: round trip: for every 4-digit id d and every variant size, the image
\* built by create_byte_array(encode_faba_id(d), tag), once its pages are
\* loaded into a page store, is decoded by parse_text to exactly d.
C2_RoundTrip ==
    (args.op = "read" /\ pc \in {"done", "crashed"}) =>
        /\ pc = "done"
        /\ result.outcome = "faba_id"
        /\ ntag.code = args.id

\* the image of an NTAG216 built for id 1234 has been read back as 1234
C2_Witness ==
    /\ args.op = "read"
    /\ pc = "done"
    /\ ntag.size = 231
    /\ args.id = Id1234
    /\ ntag.code = Id1234

----------------------------------------------------------------------------
(* C9 *)

\* page p of the byte image
ImagePage(image, p) == Slice(image, 4 * p, 4 * p + 4)

\* C9: create from scratch: for every 7-byte UID u, every variant and every
\* 4-digit id, the image crete_ntag builds has page 0 = [u0, u1, u2,
\* 0x88^u0^u1^u2], page 1 = [u3, u4, u5, u6], page 2 byte 0 = u3^u4^u5^u6,
\* page 3 byte 2 = the variant's CC value, page 4 = [0x01, 0x03, MLEN, 0x0C],
\* and the FabaID decoded from the image is the given id.
C9_CreateFromScratch ==
    (args.op = "create" /\ pc = "done") =>
        LET u == args.uid
            cc == CASE args.type = "NTAG203" -> 18 [] args.type = "NTAG213" -> 18
                    [] args.type = "NTAG215" -> 62 [] args.type = "NTAG216" -> 109
            ml == CASE args.type = "NTAG203" -> 109 [] args.type = "NTAG213" -> 160
                    [] args.type = "NTAG215" -> 224 [] args.type = "NTAG216" -> 250
            decoded == parse_text([NTAGData EXCEPT !.pages = ImagePages(byte_array)],
                                  byteorder)
        IN  /\ ImagePage(byte_array, 0) =
                   <<u[1], u[2], u[3], Xor(136, Xor(u[1], Xor(u[2], u[3])))>>
            /\ ImagePage(byte_array, 1) = <<u[4], u[5], u[6], u[7]>>
            /\ ImagePage(byte_array, 2)[1] = Xor(u[4], Xor(u[5], Xor(u[6], u[7])))
            /\ ImagePage(byte_array, 3)[3] = cc
            /\ ImagePage(byte_array, 4) = <<1, 3, ml, 12>>
            /\ decoded.outcome = "faba_id"
            /\ decoded.code = args.id

\* the scenario of the specification: UID 04742FF1780000, NTAG213, id 1234
C9_Witness ==
    /\ args.op = "create"
    /\ pc = "done"
    /\ args.uid = UidA
    /\ args.type = "NTAG213"
    /\ args.id = Id1234
    /\ ImagePage(byte_array, 0) = <<4, 116, 47, 215>>
    /\ ImagePage(byte_array, 4) = <<1, 3, 160, 12>>

----------------------------------------------------------------------------
(* The driver calls of a write or an erase *)

\* the indices of pr.io holding a call of the given kind
Calls(kind) == {i \in 1..Len(pr.io) : pr.io[i].call = kind}
\* the pages of the calls of a kind, in the order they were made
PagesOf(kind) ==
    LET sel == SelectSeq(pr.io, LAMBDA e : e.call = kind)
    IN  [i \in 1..Len(sel) |-> sel[i].page]
\* the sequence a, a+1, ..., b
Ascending(a, b) == [i \in 1..Max(0, b - a + 1) |-> a + i - 1]
\* a write or an erase has reached write_blocks
InProtocol == pc \in {"write_blocks", "write_loop", "verify_loop", "done", "failed"}

----------------------------------------------------------------------------
(* C3 *)

\* C3: the image returned by create_byte_array has length exactly
\* total_pages * 4, for the supported sizes and for every total_pages at or
\* below 17.
C3_ImageLength ==
    (args.op = "write" /\ InProtocol) => Len(byte_array) = ntag.size * 4

----------------------------------------------------------------------------
(* C4 *)

\* C4: if the UID re-read at the start of write_blocks differs from the UID
\* captured at detection (None included), the operation fails, no page write
\* is issued, verification is not started and the tag is as it was.
C4_UidMismatchNoWrite ==
    (InProtocol /\ pr.io # <<>>) =>
        /\ pr.io[1].call = "uid"
        /\ (pr.io[1].ret # ntag.uid =>
                /\ pc = "failed"
                /\ pr.err = <<"UidMismatch", -1>>
                /\ Len(pr.io) = 1
                /\ hw.mem = ntag.pages
                /\ dumped = <<>>)

\* the re-read found no tag and the write of an NTAG213 was refused
C4_Witness ==
    /\ pc = "failed"
    /\ args.op = "write"
    /\ ntag.type = "NTAG213"
    /\ pr.io # <<>>
    /\ pr.io[1].ret = None

----------------------------------------------------------------------------
(* C5 *)

\* C5: verify_blocks reads the pages start..end back in ascending order; at
\* the first page whose read-back differs from the 4 expected bytes of the
\* image (or whose read fails) verification fails naming that page, and no
\* later page is read.
C5_VerifyStopsAtFirstMismatch ==
    InProtocol =>
        /\ PagesOf("read") = Ascending(pr.start, pr.start + Cardinality(Calls("read")) - 1)
        /\ \A i \in Calls("read") :
              pr.io[i].ret # Slice(byte_array, 4 * pr.io[i].page, 4 * pr.io[i].page + 4) =>
                  /\ i = Len(pr.io)
                  /\ pc = "failed"
                  /\ pr.err \in {<<"VerifyMismatch", pr.io[i].page>>,
                                 <<"ReadFailed", pr.io[i].page>>}

\* page 8 read back with a wrong last byte after pages 4..7 verified
C5_Witness ==
    /\ pc = "failed"
    /\ pr.err = <<"VerifyMismatch", 8>>
    /\ PagesOf("read") = <<4, 5, 6, 7, 8>>
    /\ pr.io[Len(pr.io)].ret = Garbled(pr.io[Len(pr.io)].data)

----------------------------------------------------------------------------
(* C6 *)

\* C6: when the write of page p fails (False or an exception) the operation
\* aborts: pages are written in ascending order without a retry, a failed
\* write is the last driver call, the pages written before it stay as
\* written, and verification is never entered.
C6_WriteFailureAborts ==
    InProtocol =>
        /\ PagesOf("write") = Ascending(pr.start, pr.start + Cardinality(Calls("write")) - 1)
        /\ \A i \in Calls("write") :
              /\ pr.io[i].ret # "True" =>
                    /\ i = Len(pr.io)
                    /\ pc = "failed"
                    /\ pr.err = <<"WriteFailed", pr.io[i].page>>
                    /\ Calls("read") = {}
              /\ pr.io[i].ret = "True" => hw.mem[pr.io[i].page] = pr.io[i].data

\* the write of page 7 failed; page 6 keeps the bytes just written to it
C6_Witness ==
    /\ pc = "failed"
    /\ args.op = "write"
    /\ pr.err = <<"WriteFailed", 7>>
    /\ hw.mem[6] = <<1, 17, 84, 2>>
    /\ ntag.pages[6] = <<0, 0, 0, 0>>

----------------------------------------------------------------------------
(* C7 *)

\* the state of the write/verify protocol
Phase ==
    CASE pc = "write_blocks" -> "Idle"
      [] pc = "write_loop" /\ Calls("write") = {} -> "UidConfirmed"
      [] pc = "write_loop" /\ Calls("write") # {} -> "Writing"
      [] pc = "verify_loop" -> "Verifying"
      [] pc = "done" -> "Done"
      [] pc = "failed" -> "Failed"
      [] OTHER -> "None"

\* the range of a write (4..11) and of an erase (4..size-1)
LastPage == IF args.op = "write" THEN 11 ELSE ntag.size - 1

\* every page of the range was written once, in order, each write returning True
AllWritten ==
    /\ PagesOf("write") = Ascending(4, LastPage)
    /\ \A i \in Calls("write") : pr.io[i].ret = "True"

\* C7: the protocol is linear (Idle, UidConfirmed, Writing, Verifying, then
\* Done or Failed): the driver calls are one UID re-read, then writes, then
\* read-backs, no write after a read-back; success is reached only when the
\* UID matched, every page of the range was written successfully exactly
\* once, and afterwards every page of the range was read back equal to the
\* image; write_ntag dumps the image on success only.
C7_SuccessOnlyAfterWriteAndVerify ==
    (args.op \in {"write", "erase"} /\ InProtocol) =>
        /\ Phase = "Idle" <=> pr.io = <<>>
        /\ \A i \in Calls("uid") : i = 1
        /\ \A i \in Calls("read"), j \in Calls("write") : j < i
        /\ Phase \in {"UidConfirmed", "Writing", "Verifying", "Done"} => pr.io[1].ret = ntag.uid
        /\ (Phase = "Verifying" \/ Calls("read") # {}) => AllWritten
        /\ Phase = "Done" =>
              /\ AllWritten
              /\ PagesOf("read") = Ascending(4, LastPage)
              /\ \A i \in Calls("read") :
                    pr.io[i].ret = Slice(byte_array, 4 * pr.io[i].page, 4 * pr.io[i].page + 4)
        /\ dumped # <<>> => (Phase = "Done" /\ args.op = "write" /\ dumped = <<[byte_array |-> byte_array, size |-> ntag.size, type |-> ntag.type, uid |-> ntag.uid]>>)
        /\ (Phase = "Done" /\ args.op = "write") => dumped # <<>>

\* a write that succeeded: one UID re-read, eight writes, eight read-backs
C7_Witness ==
    /\ pc = "done"
    /\ args.op = "write"
    /\ Len(pr.io) = 17
    /\ dumped # <<>>

----------------------------------------------------------------------------
(* C8 *)

\* C8: a write operation only issues page writes for the indices 4..11; the
\* pages 0..3 and 12..last of the tag stay as they were read at detection,
\* whether the operation succeeds, fails on a write or fails on verification.
C8_WriteTouchesOnlyPages4To11 ==
    (args.op = "write" /\ InProtocol) =>
        /\ \A i \in Calls("write") : pr.io[i].page \in 4..11
        /\ \A p \in DOMAIN hw.mem : p \notin 4..11 => hw.mem[p] = ntag.pages[p]

\* a write to an NTAG215 failed in verification after changing page 11
C8_Witness ==
    /\ args.op = "write"
    /\ pc = "failed"
    /\ ntag.type = "NTAG215"
    /\ pr.err[1] = "VerifyMismatch"
    /\ hw.mem[11] # ntag.pages[11]
    /\ hw.mem[12] = ntag.pages[12]

----------------------------------------------------------------------------
(* C10 *)

\* -r has run parse_text on a page store whose page 6 has another type field
\* than 0x54
ReadOfNonTextRecord ==
    /\ args.op = "read"
    /\ pc \in {"done", "crashed"}
    /\ 6 \in DOMAIN ntag.pages
    /\ ntag.pages[6][3] # 84

\* C10 as claimed: decoding a record whose type field is not 0x54 does not
\* abort on the mismatch and reports no FabaID.
C10_NoIdentifierWhenNotText ==
    ReadOfNonTextRecord =>
        /\ result.no_text_record
        /\ result.outcome # "faba_id"
        /\ ntag.code = <<>>

\* C10 as amended: decoding a record whose type field is not 0x54 logs the
\* mismatch and goes on with the same fixed offsets, ending exactly as it
\* would for the same pages with type field 0x54: a FabaID is reported when
\* the text starts with 02190530 and has at least 12 characters.
C10_TypeFieldIgnored ==
    ReadOfNonTextRecord =>
        LET asText == parse_text([ntag EXCEPT !.pages[6][3] = 84], byteorder)
        IN  /\ result.no_text_record
            /\ result.outcome = asText.outcome
            /\ result.full_payload = asText.full_payload
            /\ ntag.code = asText.code

\* a record of type field 0x00 whose text carried the id 1234 was decoded
C10_Witness ==
    /\ ReadOfNonTextRecord
    /\ result.outcome = "faba_id"
    /\ ntag.code = Id1234

----------------------------------------------------------------------------
(* C11 *)

\* -r has run parse_text on a page store that has page 6
ReadOfRecord ==
    /\ args.op = "read"
    /\ pc \in {"done", "crashed"}
    /\ 6 \in DOMAIN ntag.pages

\* C11: whenever the payload parse_text accumulated is shorter than
\* lang_length = status_byte & 0x3F, decoding ends with the "insufficient
\* data" failure and no FabaID is extracted; whenever the payload is at least
\* lang_length long, that failure is not reported.
C11_InsufficientData ==
    ReadOfRecord =>
        LET lang_length == ntag.pages[6][4] % 64
        IN  /\ (Len(result.full_payload) < lang_length) <=> (result.outcome = "insufficient")
            /\ (result.outcome = "insufficient" => ntag.code = <<>> /\ pc = "done")

\* a record announcing a 3-byte language code whose payload stopped at 2 bytes
C11_Witness ==
    /\ ReadOfRecord
    /\ ntag.pages[6][4] = 3
    /\ Len(result.full_payload) = 2
    /\ result.outcome = "insufficient"

----------------------------------------------------------------------------
(* C12 *)

\* C12: once detect_card has finalized the tag, every key of the page store is
\* an index i with 0 <= i < total_pages and every stored page has exactly 4
\* bytes, whatever the CC byte and the observed page count (clones that answer
\* more or fewer pages than the forced size included).
C12_PageStoreWithinTotal ==
    pc = "detected" =>
        \A i \in DOMAIN ntag.pages :
            /\ 0 <= i
            /\ i < ntag.size
            /\ Len(ntag.pages[i]) = 4

----------------------------------------------------------------------------
(* C13 *)

\* the numbers of the 'Page N' lines save_flipper writes for an image
PageLines(image) == DOMAIN ImagePages(image)

\* C13: every byte image handed to the dump serializers has length
\* total_pages * 4 on each path (detect then -d, write then dump, create then
\* dump), so that the Flipper file has exactly one 'Page N' line for each N
\* in 0..total_pages-1, as many as its 'Pages total' / 'Pages read' fields say.
C13_DumpMatchesTotalPages ==
    \A i \in 1..Len(dumped) :
        /\ Len(dumped[i].byte_array) = dumped[i].size * 4
        /\ PageLines(dumped[i].byte_array) = 0..(dumped[i].size - 1)

----------------------------------------------------------------------------
(* C14 *)

\* the bytes of pages 7, 8, ... of the page store up to the first missing page
PayloadArea ==
    LET last == CHOOSE p \in 6..(6 + Cardinality(DOMAIN ntag.pages)) :
                    /\ \A q \in 7..p : q \in DOMAIN ntag.pages
                    /\ (p + 1) \notin DOMAIN ntag.pages
    IN  Flatten([i \in 1..(last - 6) |-> ntag.pages[6 + i]])

\* the bytes of s in front of its first 0xFE
BeforeTerminator(s) ==
    IF \E k \in 1..Len(s) : s[k] = 254
    THEN SubSeq(s, 1, (CHOOSE k \in 1..Len(s) :
                          s[k] = 254 /\ \A j \in 1..(k - 1) : s[j] # 254) - 1)
    ELSE s

\* C14: parse_text stops accumulating at the first of: payload_length bytes
\* collected, a 0xFE terminator byte, a missing page.  No byte that follows a
\* 0xFE, in the same page or in a later one, is appended to the payload, and
\* the loop ends for every page store.
C14_StopsAtTerminator ==
    ReadOfRecord =>
        result.full_payload =
            Slice(BeforeTerminator(PayloadArea), 0, ntag.pages[6][2])

----------------------------------------------------------------------------
(* C15 *)

\* create_byte_array has built an image for the finalized tag
ImageBuilt == pc \in {"write_blocks", "done"} /\ byte_array # <<>>

\* C15 as stated: page 4 of the image create_byte_array builds is
\* [0x01, 0x03, MLEN, 0x0C] with MLEN given by the variant: 0x6D for NTAG203,
\* 0xA0 for NTAG213, 0xE0 for NTAG215, 0xFA for NTAG216 and 0xA0 whenever the
\* variant is Unknown, whatever page count was observed, for every tag state
\* reachable from detect_card or crete_ntag.
C15_MLenByVariant ==
    ImageBuilt =>
        ImagePage(byte_array, 4) =
            <<1, 3, CASE ntag.type = "NTAG203" -> 109
                      [] ntag.type = "NTAG213" -> 160
                      [] ntag.type = "NTAG215" -> 224
                      [] ntag.type = "NTAG216" -> 250
                      [] OTHER                 -> 160, 12>>

\* C15 (amended): MLEN is given by total_pages: each of the four variants
\* gets its own value (their sizes are 42, 45, 135, 231), and an Unknown tag
\* gets 0xA0 unless it answered 42, 135 or 231 pages, where it gets the 0x6D,
\* 0xE0 or 0xFA of the variant of that size.
C15_MLenBySize ==
    ImageBuilt =>
        ImagePage(byte_array, 4) =
            <<1, 3, CASE ntag.type = "NTAG203" -> 109
                      [] ntag.type = "NTAG213" -> 160
                      [] ntag.type = "NTAG215" -> 224
                      [] ntag.type = "NTAG216" -> 250
                      [] ntag.type = "Unknown" /\ ntag.size = 42  -> 109
                      [] ntag.type = "Unknown" /\ ntag.size = 135 -> 224
                      [] ntag.type = "Unknown" /\ ntag.size = 231 -> 250
                      [] OTHER -> 160, 12>>

\* an image built for a tag of unknown CC that answered 42 pages
C15_Witness ==
    /\ ImageBuilt
    /\ ntag.type = "Unknown"
    /\ ntag.size = 42
    /\ ImagePage(byte_array, 4) = <<1, 3, 109, 12>>

----------------------------------------------------------------------------
(* C16 *)

\* C16: on the create path every (UID, TYPE, ID) that passes main's
\* validation (14 hex characters, a TYPE accepted by the case-insensitive
\* check, a 4-digit ID) is accepted by crete_ntag and leads to an image built
\* and dumped: crete_ntag never rejects what the validation accepted.
C16_ValidatedIsCreated ==
    (args.op = "create" /\ pc \in {"done", "crashed"}) =>
        /\ pc = "done"
        /\ byte_array # <<>>
        /\ Len(dumped) = 1
        /\ dumped[1].byte_array = byte_array

====
